---- MODULE Spec2Model ----
(***************************************************************************)
(* State-machine model of the MyHome Mind application component            *)
(* (src/src/App.jsx): the Local State Cache (React state), the mutation    *)
(* handlers, the Sync Engine (auth listener, snapshot subscription,        *)
(* saveData) and the remote document store they talk to.                   *)
(*                                                                         *)
(* Encoding of JavaScript values                                           *)
(*   null / undefined state   a sequence of length 0 (<<>>), a present     *)
(*                            value v is <<v>>                             *)
(*   null string              ""  (falsy in the code's tests as well)      *)
(*   draggedOptionIdx null    -1                                           *)
(*   option objects           references (positive integers) into heap,    *)
(*                            because the option handlers mutate option    *)
(*                            objects in place and the objects are shared  *)
(*                            between items, selectedItem and the          *)
(*                            closures of pending image reads              *)
(*   undefined array element  reference 0 (Undef)                          *)
(*   array indices            0-based, as in the code                      *)
(***************************************************************************)
EXTENDS Integers, Sequences, FiniteSets, TLC

(***************************************************************************)
(* Bounds of the model.                                                    *)
(***************************************************************************)
MaxItems == 2
MaxOpts == 2
MaxChecklist == 2
MaxClock == 3
MaxReads == 1
MaxIds == 4
MaxText == 2

MaxAnon == 2

MaxCalls == 1

(***************************************************************************)
(* Values.                                                                 *)
(***************************************************************************)
Undef == 0
NoIdx == -1
NoUser == ""
NoShare == ""
NoImage == ""
NoError == ""

\* No call of the auth SDK is awaited.
NoCalls == [signInAnonymously |-> 0, signInWithPopup |-> 0, signOut |-> 0]

Keys == {"spaces", "items", "groceries", "repairs"}

\* crypto.randomUUID(): the n-th identifier handed out; all are distinct.
randomUUID(n) ==
    <<"u1", "u2", "u3", "u4", "u5", "u6", "u7", "u8", "u9", "u10", "u11", "u12">>[n]

DEFAULT_SPACES ==
    << [id |-> "1", name |-> "Living Room", image |-> NoImage],
       [id |-> "2", name |-> "Kitchen", image |-> NoImage],
       [id |-> "3", name |-> "Bathroom", image |-> NoImage],
       [id |-> "4", name |-> "Master Bedroom", image |-> NoImage],
       [id |-> "5", name |-> "Wardrobe", image |-> NoImage],
       [id |-> "6", name |-> "Kids' Room", image |-> NoImage],
       [id |-> "7", name |-> "Garden", image |-> NoImage] >>

\* What an undefined array element looks like once the array is handed to
\* the document store.
UndefOpt == [undefined |-> TRUE]

\* The option object created by the "Add Option" button.
NewOption(id) ==
    [id |-> id, model |-> "", price |-> "", store |-> "", link |-> "",
     notes |-> "", winner |-> FALSE, image |-> NoImage]

(***************************************************************************)
(* Generic sequence helpers (Array.prototype.map / filter / splice).       *)
(***************************************************************************)
Range(s) == {s[i] : i \in 1..Len(s)}

\* F(e), with e evaluated once.
Bind(e, F(_)) == CHOOSE y \in {F(x) : x \in {e}} : TRUE

RECURSIVE FilterSeq(_, _)
FilterSeq(s, keep) ==
    IF s = <<>> THEN <<>>
    ELSE (IF Head(s) \in keep THEN <<Head(s)>> ELSE <<>>) \o
         FilterSeq(Tail(s), keep)

\* arr.splice(start, 1) for start >= 0: the array that remains.
SpliceRemove(arr, start) ==
    IF start < Len(arr)
    THEN SubSeq(arr, 1, start) \o SubSeq(arr, start + 2, Len(arr))
    ELSE arr

\* The first element of the array arr.splice(start, 1) returns: the removed
\* element, or undefined when start is at or past the end.
SpliceTaken(arr, start) ==
    IF start < Len(arr) THEN arr[start + 1] ELSE Undef

\* arr.splice(start, 0, x) for start >= 0: start is clamped to the length.
SpliceInsert(arr, start, x) ==
    LET at == IF start > Len(arr) THEN Len(arr) ELSE start
    IN  SubSeq(arr, 1, at) \o <<x>> \o SubSeq(arr, at + 1, Len(arr))

(***************************************************************************)
(* State.                                                                  *)
(***************************************************************************)
VARIABLES
    mounted,          \* the component's mount effects have run
    shareId,          \* the ?share= parameter of the page URL (NoShare: none)
    authUser,         \* identity provider: the signed-in uid (NoUser: none)
    authEvents,       \* onAuthStateChanged events not yet delivered
    authCalls,        \* calls of the auth SDK awaited and not yet settled
    anonCount,        \* anonymous identities created so far
    user,             \* useState(null)
    isReadOnly,       \* useState(false)
    loading,          \* useState(true)
    searchQuery,      \* useState('')
    authError,        \* useState(null)
    spaces,           \* useState(DEFAULT_SPACES)
    items,            \* useState([])
    groceries,        \* useState([])
    repairs,          \* useState([])
    selectedItem,     \* useState(null)
    draggedOptionIdx, \* useState(null)
    heap,             \* the option objects, by reference
    sub,              \* paths of the attached onSnapshot listeners
    snapDue,          \* the subscription has a snapshot to deliver
    remote,           \* document store: path -> document
    writes,           \* setDoc calls issued and not yet settled, in order
    reads,            \* FileReader reads started and not yet completed
    nextId,           \* number of identifiers handed out by randomUUID
    clock,            \* Date.now()
    last              \* the operation that produced this state, for the claims

vars ==
    <<mounted, shareId, authUser, authEvents, authCalls, anonCount, user,
      isReadOnly, loading, searchQuery, authError, spaces, items, groceries, repairs,
      selectedItem, draggedOptionIdx, heap, sub, snapDue, remote, writes,
      reads, nextId, clock, last>>

(***************************************************************************)
(* Document paths.                                                         *)
(***************************************************************************)
PrivatePath(uid) == [scope |-> "users", key |-> uid]

PublicPath(token) == [scope |-> "public", key |-> token]

\* A docPath that forgets the share token.
resolveDocPath_IgnoreShare(u, share) == PrivatePath(u)

\* The docPath expression of the Data Sync effect.
resolveDocPath(u, share) ==
    IF share # NoShare THEN PublicPath(share) ELSE PrivatePath(u)

(***************************************************************************)
(* Option objects: the heap.                                               *)
(***************************************************************************)
\* A reference no live object uses.
Alloc(h) ==
    Bind(DOMAIN h, LAMBDA d : CHOOSE r \in 1..(Cardinality(d) + 1) : r \notin d)

Deref(h, r) == IF r = Undef THEN UndefOpt ELSE h[r]

\* The value of an option array as the document store receives it.
SerOptions(h, opts) == [i \in 1..Len(opts) |-> Deref(h, opts[i])]

SerItem(h, it) == [it EXCEPT !.options = SerOptions(h, it.options)]

SerItems(h, its) == [i \in 1..Len(its) |-> SerItem(h, its[i])]

\* snapshot.data(): every option of the document becomes a fresh object.
RECURSIVE MatOptions(_, _)
MatOptions(h, opts) ==
    IF opts = <<>> THEN [refs |-> <<>>, heap |-> h]
    ELSE Bind(Alloc(h), LAMBDA r :
         Bind(MatOptions(h @@ (r :> Head(opts)), Tail(opts)), LAMBDA rest :
              [refs |-> <<r>> \o rest.refs, heap |-> rest.heap]))

RECURSIVE MatItems(_, _)
MatItems(h, its) ==
    IF its = <<>> THEN [items |-> <<>>, heap |-> h]
    ELSE Bind(MatOptions(h, Head(its).options), LAMBDA o :
         Bind(MatItems(o.heap, Tail(its)), LAMBDA rest :
              [items |-> <<[Head(its) EXCEPT !.options = o.refs]>> \o rest.items,
               heap |-> rest.heap]))

(***************************************************************************)
(* The state a handler works on, and the closure it was created in.        *)
(***************************************************************************)
\* The React state and the effects a handler can have on the outside.
Cur ==
    [spaces |-> spaces, items |-> items, groceries |-> groceries,
     repairs |-> repairs, selectedItem |-> selectedItem,
     draggedOptionIdx |-> draggedOptionIdx, heap |-> heap,
     writes |-> writes, nextId |-> nextId, clock |-> clock]

\* The values a handler created by the current render reads.
Closure ==
    [spaces |-> spaces, items |-> items, groceries |-> groceries,
     repairs |-> repairs, selectedItem |-> selectedItem, user |-> user,
     isReadOnly |-> isReadOnly, draggedOptionIdx |-> draggedOptionIdx]

\* The closure of the render that follows a handler's state updates.
ClosureOf(st) ==
    [spaces |-> st.spaces, items |-> st.items, groceries |-> st.groceries,
     repairs |-> st.repairs, selectedItem |-> st.selectedItem, user |-> user,
     isReadOnly |-> isReadOnly, draggedOptionIdx |-> st.draggedOptionIdx]

(***************************************************************************)
(* saveData (persist).  An argument is <<>> for null / undefined and <<v>> *)
(* for a value.                                                            *)
(***************************************************************************)
ArgKeys(newSpaces, newItems, newGroceries, newRepairs) ==
    (IF newSpaces # <<>> THEN {"spaces"} ELSE {}) \cup
    (IF newItems # <<>> THEN {"items"} ELSE {}) \cup
    (IF newGroceries # <<>> THEN {"groceries"} ELSE {}) \cup
    (IF newRepairs # <<>> THEN {"repairs"} ELSE {})

\* A saveData without the early return.
saveData_NoGuard(st, c, newSpaces, newItems, newGroceries, newRepairs) ==
    LET updates ==
            [has |-> ArgKeys(newSpaces, newItems, newGroceries, newRepairs),
             lastUpdated |-> st.clock,
             spaces |-> IF newSpaces # <<>> THEN newSpaces[1] ELSE <<>>,
             items |-> IF newItems # <<>>
                       THEN SerItems(st.heap, newItems[1]) ELSE <<>>,
             groceries |-> IF newGroceries # <<>> THEN newGroceries[1] ELSE <<>>,
             repairs |-> IF newRepairs # <<>> THEN newRepairs[1] ELSE <<>>]
    IN  [st EXCEPT
            !.writes = Append(@, [uid |-> c.user, updates |-> updates]),
            !.clock = @ + 1]

saveData(st, c, newSpaces, newItems, newGroceries, newRepairs) ==
    IF c.user = NoUser \/ c.isReadOnly THEN st
    ELSE LET updates ==
                 [has |-> ArgKeys(newSpaces, newItems, newGroceries, newRepairs),
                  lastUpdated |-> st.clock,
                  spaces |-> IF newSpaces # <<>> THEN newSpaces[1] ELSE <<>>,
                  items |-> IF newItems # <<>>
                            THEN SerItems(st.heap, newItems[1]) ELSE <<>>,
                  groceries |-> IF newGroceries # <<>>
                                THEN newGroceries[1] ELSE <<>>,
                  repairs |-> IF newRepairs # <<>> THEN newRepairs[1] ELSE <<>>]
         IN  [st EXCEPT
                 !.writes = Append(@, [uid |-> c.user, updates |-> updates]),
                 !.clock = @ + 1]

\* setDoc without the merge option: the document becomes the update.
MergeWrite_Replace(doc, updates) ==
    [exists |-> TRUE,
     has |-> updates.has,
     lastUpdated |-> updates.lastUpdated,
     spaces |-> updates.spaces,
     items |-> updates.items,
     groceries |-> updates.groceries,
     repairs |-> updates.repairs]

\* setDoc(docRef, updates, {merge: true}) as the store applies it.
MergeWrite(doc, updates) ==
    [exists |-> TRUE,
     has |-> doc.has \cup updates.has,
     lastUpdated |-> updates.lastUpdated,
     spaces |-> IF "spaces" \in updates.has THEN updates.spaces ELSE doc.spaces,
     items |-> IF "items" \in updates.has THEN updates.items ELSE doc.items,
     groceries |-> IF "groceries" \in updates.has
                   THEN updates.groceries ELSE doc.groceries,
     repairs |-> IF "repairs" \in updates.has
                 THEN updates.repairs ELSE doc.repairs]

\* What a listener on path sees: the stored document with the session's
\* pending writes to that path applied on top (the store's local view).
RECURSIVE LocalView(_, _, _)
LocalView(doc, pending, uid) ==
    IF pending = <<>> THEN doc
    ELSE LocalView(IF Head(pending).uid = uid
                   THEN MergeWrite(doc, Head(pending).updates) ELSE doc,
                   Tail(pending), uid)

(***************************************************************************)
(* Item handlers.                                                          *)
(***************************************************************************)
\* { ...i, ...updates }: updates names the fields it carries in has.
Spread(i, updates) ==
    [i EXCEPT
        !.name = IF "name" \in updates.has THEN updates.name ELSE @,
        !.image = IF "image" \in updates.has THEN updates.image ELSE @,
        !.options = IF "options" \in updates.has THEN updates.options ELSE @]

OptionsUpdate(opts) ==
    [has |-> {"options"}, options |-> opts, name |-> "", image |-> NoImage]

NameUpdate(n) ==
    [has |-> {"name"}, options |-> <<>>, name |-> n, image |-> NoImage]

updateItem(st, c, itemId, updates) ==
    LET updated == [k \in 1..Len(c.items) |->
                       IF c.items[k].id = itemId
                       THEN Spread(c.items[k], updates) ELSE c.items[k]]
        st1 == [st EXCEPT !.items = updated]
        st2 == saveData(st1, c, <<>>, <<updated>>, <<>>, <<>>)
    IN  IF c.selectedItem # <<>> /\ c.selectedItem[1].id = itemId
        THEN [st2 EXCEPT
                 !.selectedItem = <<Spread(c.selectedItem[1], updates)>>]
        ELSE st2

\* A deleteItem that forgets the selection.
deleteItem_KeepSelection(st, c, itemId) ==
    LET keep == {i \in Range(c.items) : i.id # itemId}
        updated == FilterSeq(c.items, keep)
        st1 == [st EXCEPT !.items = updated]
    IN  saveData(st1, c, <<>>, <<updated>>, <<>>, <<>>)

deleteItem(st, c, itemId) ==
    LET keep == {i \in Range(c.items) : i.id # itemId}
        updated == FilterSeq(c.items, keep)
        st1 == [st EXCEPT !.items = updated]
        st2 == saveData(st1, c, <<>>, <<updated>>, <<>>, <<>>)
    IN  [st2 EXCEPT !.selectedItem = <<>>]

addItemToSpace(st, c, spaceId) ==
    LET newItem == [id |-> randomUUID(st.nextId + 1), spaceId |-> spaceId,
                    name |-> "New Item", options |-> <<>>, image |-> NoImage,
                    order |-> Len(c.items)]
        updated == Append(c.items, newItem)
        st1 == [st EXCEPT !.items = updated, !.nextId = @ + 1]
    IN  saveData(st1, c, <<>>, <<updated>>, <<>>, <<>>)

(***************************************************************************)
(* Option handlers of the item modal.  idx is the 0-based index of the     *)
(* option card; the handlers read selectedItem of their closure.           *)
(***************************************************************************)
\* A handler that sets the flag and forgets the other options.
MarkWinnerHeap_NoClear(h, newOptions, idx) ==
    [h EXCEPT ![newOptions[idx + 1]].winner = ~@]

\* "Mark as Winner" onClick: toggles the flag of the object at idx in place
\* and, when it became true, clears the flag of the objects at the other
\* positions in place.
MarkWinnerHeap(h, newOptions, idx) ==
    LET r == newOptions[idx + 1]
        h1 == [h EXCEPT ![r].winner = ~@]
        others == {newOptions[i] : i \in (1..Len(newOptions)) \ {idx + 1}}
    IN  IF h1[r].winner
        THEN [x \in DOMAIN h1 |->
                 IF x \in others THEN [h1[x] EXCEPT !.winner = FALSE]
                 ELSE h1[x]]
        ELSE h1

MarkWinner(st, c, idx) ==
    LET newOptions == c.selectedItem[1].options
        st1 == [st EXCEPT !.heap = MarkWinnerHeap(st.heap, newOptions, idx)]
    IN  updateItem(st1, c, c.selectedItem[1].id, OptionsUpdate(newOptions))

\* onChange of the model / price / store / link / notes inputs: assigns the
\* field of the object at idx in place.
EditOptionField(st, c, idx, field, value) ==
    LET newOptions == c.selectedItem[1].options
        r == newOptions[idx + 1]
        st1 == [st EXCEPT !.heap = [@ EXCEPT ![r][field] = value]]
    IN  updateItem(st1, c, c.selectedItem[1].id, OptionsUpdate(newOptions))

\* "Delete Option" onClick.
DeleteOption(st, c, idx) ==
    LET opts == c.selectedItem[1].options
        newOptions == SpliceRemove(opts, idx)
    IN  updateItem(st, c, c.selectedItem[1].id, OptionsUpdate(newOptions))

\* "Add Option" onClick.
AddOption(st, c) ==
    LET r == Alloc(st.heap)
        st1 == [st EXCEPT
                   !.heap = @ @@ (r :> NewOption(randomUUID(st.nextId + 1))),
                   !.nextId = @ + 1]
    IN  updateItem(st1, c, c.selectedItem[1].id,
                   OptionsUpdate(Append(c.selectedItem[1].options, r)))

(***************************************************************************)
(* Option reordering.                                                      *)
(***************************************************************************)
handleOptionDragStart(st, index) == [st EXCEPT !.draggedOptionIdx = index]

\* The array handleOptionDrop builds: splice the dragged element out, splice
\* what came out back in at dropIndex.
Reorder(opts, from, dropIndex) ==
    SpliceInsert(SpliceRemove(opts, from), dropIndex, SpliceTaken(opts, from))

handleOptionDrop(st, c, dropIndex) ==
    IF c.draggedOptionIdx = NoIdx \/ c.draggedOptionIdx = dropIndex THEN st
    ELSE LET newOptions ==
                 Reorder(c.selectedItem[1].options, c.draggedOptionIdx,
                         dropIndex)
             st1 == updateItem(st, c, c.selectedItem[1].id,
                               OptionsUpdate(newOptions))
         IN  [st1 EXCEPT !.draggedOptionIdx = NoIdx]

(***************************************************************************)
(* DnD Migration effect: runs after a render in which selectedItem changed *)
(* and gives an identifier to the options that lack one.                   *)
(***************************************************************************)
RECURSIVE PatchOptions(_, _, _)
PatchOptions(h, opts, n) ==
    IF opts = <<>> THEN [refs |-> <<>>, heap |-> h, nextId |-> n]
    ELSE IF h[Head(opts)].id # ""
         THEN LET rest == PatchOptions(h, Tail(opts), n)
              IN  [rest EXCEPT !.refs = <<Head(opts)>> \o @]
         ELSE LET r == Alloc(h)
                  o == [h[Head(opts)] EXCEPT !.id = randomUUID(n + 1)]
                  rest == PatchOptions(h @@ (r :> o), Tail(opts), n + 1)
              IN  [rest EXCEPT !.refs = <<r>> \o @]

\* A test that looks at the first option only.
NeedsBackfill_FirstOnly(h, sel) ==
    /\ sel # <<>>
    /\ sel[1].options # <<>>
    /\ h[sel[1].options[1]].id = ""

NeedsBackfill(h, sel) ==
    /\ sel # <<>>
    /\ \E i \in 1..Len(sel[1].options) : h[sel[1].options[i]].id = ""

\* The render throws on an undefined option (option.id), and React unmounts
\* the component: no effect runs and no handler can be invoked any more.
RenderThrows(its, sel) ==
    \/ sel # <<>> /\ Undef \in Range(sel[1].options)
    \/ \E i \in 1..Len(its) : Undef \in Range(its[i].options)

MigrationEffect(st, c) ==
    IF RenderThrows(st.items, st.selectedItem) THEN st
    ELSE IF NeedsBackfill(st.heap, st.selectedItem)
    THEN LET p == PatchOptions(st.heap, st.selectedItem[1].options, st.nextId)
             st1 == [st EXCEPT !.heap = p.heap, !.nextId = p.nextId]
         IN  updateItem(st1, c, st.selectedItem[1].id, OptionsUpdate(p.refs))
    ELSE st

(***************************************************************************)
(* Search.                                                                 *)
(***************************************************************************)
\* String.prototype.toLowerCase on one character: an upper-case letter
\* becomes its lower-case letter, every other character is kept.
LowerOf(ch) ==
    LET lower ==
            [A |-> "a", B |-> "b", C |-> "c", D |-> "d", E |-> "e", F |-> "f",
             G |-> "g", H |-> "h", I |-> "i", J |-> "j", K |-> "k", L |-> "l",
             M |-> "m", N |-> "n", O |-> "o", P |-> "p", Q |-> "q", R |-> "r",
             S |-> "s", T |-> "t", U |-> "u", V |-> "v", W |-> "w", X |-> "x",
             Y |-> "y", Z |-> "z"]
    IN  IF ch \in DOMAIN lower THEN lower[ch] ELSE ch

RECURSIVE toLowerCase(_)
toLowerCase(str) ==
    IF str = "" THEN ""
    ELSE LowerOf(SubSeq(str, 1, 1)) \o toLowerCase(Tail(str))

\* String.prototype.includes: the search string is looked for at each
\* position in turn.
RECURSIVE includes(_, _)
includes(str, search) ==
    IF Len(search) > Len(str) THEN FALSE
    ELSE IF SubSeq(str, 1, Len(search)) = search THEN TRUE
    ELSE includes(Tail(str), search)

\* A matchItem that looks at the options' models only.
matchItem_NoStore(h, item, query) ==
    LET q == toLowerCase(query)
    IN  \/ includes(toLowerCase(item.name), q)
        \/ \E i \in 1..Len(item.options) :
               includes(toLowerCase(h[item.options[i]].model), q)

\* matchItem, for an item rendered without a throw (no undefined option).
matchItem(h, item, query) ==
    LET q == toLowerCase(query)
        atomicName == toLowerCase(item.name)
        matchesName == includes(atomicName, q)
        matchesOptions ==
            \E i \in 1..Len(item.options) :
               \/ includes(toLowerCase(h[item.options[i]].model), q)
               \/ includes(toLowerCase(h[item.options[i]].store), q)
    IN  matchesName \/ matchesOptions

\* items.filter(i => matchItem(i, searchQuery)): the search results view.
searchResults(h, its, query) ==
    FilterSeq(its, {it \in Range(its) : matchItem(h, it, query)})

(***************************************************************************)
(* Checklist handlers (groceries and repairs).                             *)
(***************************************************************************)
NewEntry(id) == [id |-> id, text |-> "", completed |-> FALSE]

\* { ...g, [field]: value }
SetField(g, field, value) == [g EXCEPT ![field] = value]

\* A map that sets the field of every entry.
MapEntries_All(list, id, field, value) ==
    [k \in 1..Len(list) |-> SetField(list[k], field, value)]

MapEntries(list, id, field, value) ==
    [k \in 1..Len(list) |->
        IF list[k].id = id THEN SetField(list[k], field, value) ELSE list[k]]

addGrocery(st, c) ==
    LET updated == <<NewEntry(randomUUID(st.nextId + 1))>> \o c.groceries
        st1 == [st EXCEPT !.groceries = updated, !.nextId = @ + 1]
    IN  saveData(st1, c, <<>>, <<>>, <<updated>>, <<>>)

\* An updateGrocery that changes the cache and does not persist.
updateGrocery_NoSave(st, c, id, field, value) ==
    [st EXCEPT !.groceries = MapEntries(c.groceries, id, field, value)]

updateGrocery(st, c, id, field, value) ==
    LET updated == MapEntries(c.groceries, id, field, value)
        st1 == [st EXCEPT !.groceries = updated]
    IN  saveData(st1, c, <<>>, <<>>, <<updated>>, <<>>)

deleteGrocery(st, c, id) ==
    LET updated == FilterSeq(c.groceries, {g \in Range(c.groceries) : g.id # id})
        st1 == [st EXCEPT !.groceries = updated]
    IN  saveData(st1, c, <<>>, <<>>, <<updated>>, <<>>)

\* An addRepair that passes the list in the groceries position.
addRepair_WrongKey(st, c) ==
    LET updated == <<NewEntry(randomUUID(st.nextId + 1))>> \o c.repairs
        st1 == [st EXCEPT !.repairs = updated, !.nextId = @ + 1]
    IN  saveData(st1, c, <<>>, <<>>, <<updated>>, <<>>)

addRepair(st, c) ==
    LET updated == <<NewEntry(randomUUID(st.nextId + 1))>> \o c.repairs
        st1 == [st EXCEPT !.repairs = updated, !.nextId = @ + 1]
    IN  saveData(st1, c, <<>>, <<>>, <<>>, <<updated>>)

updateRepair(st, c, id, field, value) ==
    LET updated == MapEntries(c.repairs, id, field, value)
        st1 == [st EXCEPT !.repairs = updated]
    IN  saveData(st1, c, <<>>, <<>>, <<>>, <<updated>>)

deleteRepair(st, c, id) ==
    LET updated == FilterSeq(c.repairs, {r \in Range(c.repairs) : r.id # id})
        st1 == [st EXCEPT !.repairs = updated]
    IN  saveData(st1, c, <<>>, <<>>, <<>>, <<updated>>)

(***************************************************************************)
(* Image reads: reader.onloadend runs in the closure of the render in      *)
(* which the upload handler was called.  After the component is unmounted  *)
(* the state setters do nothing, saveData still runs.                      *)
(***************************************************************************)
KeepState(st, after) ==
    [st EXCEPT !.writes = after.writes, !.clock = after.clock]

SpaceImageLoaded(st, c, spaceId, result) ==
    LET newSpaces == [k \in 1..Len(c.spaces) |->
                         IF c.spaces[k].id = spaceId
                         THEN [c.spaces[k] EXCEPT !.image = result]
                         ELSE c.spaces[k]]
        st1 == [st EXCEPT !.spaces = newSpaces]
    IN  saveData(st1, c, <<newSpaces>>, <<>>, <<>>, <<>>)

ItemImageLoaded(st, c, itemId, result) ==
    LET newItems == [k \in 1..Len(c.items) |->
                        IF c.items[k].id = itemId
                        THEN [c.items[k] EXCEPT !.image = result]
                        ELSE c.items[k]]
        st1 == [st EXCEPT !.items = newItems]
        st2 == IF c.selectedItem # <<>> /\ c.selectedItem[1].id = itemId
               THEN [st1 EXCEPT
                        !.selectedItem =
                            <<[c.selectedItem[1] EXCEPT !.image = result]>>]
               ELSE st1
    IN  saveData(st2, c, <<>>, <<newItems>>, <<>>, <<>>)

OptionImageLoaded(st, c, itemId, optionIndex, result) ==
    LET found == {k \in 1..Len(c.items) : c.items[k].id = itemId}
    IN  IF found = {} THEN st
        ELSE LET item == c.items[CHOOSE k \in found : \A j \in found : k <= j]
                 opts == item.options
             IN  IF optionIndex < Len(opts) /\ opts[optionIndex + 1] # Undef
                 THEN LET r == Alloc(st.heap)
                          o == [st.heap[opts[optionIndex + 1]] EXCEPT
                                   !.image = result]
                          newOptions == [opts EXCEPT ![optionIndex + 1] = r]
                          st1 == [st EXCEPT !.heap = @ @@ (r :> o)]
                      IN  updateItem(st1, c, itemId, OptionsUpdate(newOptions))
                 ELSE st

ImageLoaded(st, rd) ==
    IF rd.kind = "space" THEN SpaceImageLoaded(st, rd.c, rd.id, rd.result)
    ELSE IF rd.kind = "item" THEN ItemImageLoaded(st, rd.c, rd.id, rd.result)
    ELSE OptionImageLoaded(st, rd.c, rd.id, rd.idx, rd.result)

(***************************************************************************)
(* onSnapshot success callback.                                            *)
(***************************************************************************)
\* A handler that replaces the cache by the document, absent keys included.
SnapshotHandler_Replace(st, doc) ==
    IF doc.exists
    THEN LET m == MatItems(st.heap, doc.items)
         IN  [st EXCEPT !.spaces = doc.spaces, !.items = m.items,
                        !.heap = m.heap, !.groceries = doc.groceries,
                        !.repairs = doc.repairs]
    ELSE st

SnapshotHandler(st, doc) ==
    IF doc.exists
    THEN Bind(MatItems(st.heap, doc.items), LAMBDA m :
             [st EXCEPT
                 !.spaces = IF "spaces" \in doc.has THEN doc.spaces ELSE @,
                 !.items = IF "items" \in doc.has THEN m.items ELSE @,
                 !.heap = IF "items" \in doc.has THEN m.heap ELSE @,
                 !.groceries = IF "groceries" \in doc.has
                               THEN doc.groceries ELSE @,
                 !.repairs = IF "repairs" \in doc.has THEN doc.repairs ELSE @])
    ELSE st

(***************************************************************************)
(* References are renamed to their order of first use after every step, so *)
(* that states differing only in the names of the objects are one state;   *)
(* objects nothing refers to any more are dropped.                         *)
(***************************************************************************)
RECURSIVE ItemRefs(_)
ItemRefs(its) ==
    IF its = <<>> THEN <<>> ELSE Head(its).options \o ItemRefs(Tail(its))

SelRefs(sel) == IF sel = <<>> THEN <<>> ELSE sel[1].options

RECURSIVE ReadRefs(_)
ReadRefs(rds) ==
    IF rds = <<>> THEN <<>>
    ELSE ItemRefs(Head(rds).c.items) \o SelRefs(Head(rds).c.selectedItem) \o
         ReadRefs(Tail(rds))

RECURSIVE FirstUses(_, _)
FirstUses(refs, seen) ==
    IF refs = <<>> THEN <<>>
    ELSE IF Head(refs) = Undef \/ Head(refs) \in seen
         THEN FirstUses(Tail(refs), seen)
         ELSE <<Head(refs)>> \o FirstUses(Tail(refs), seen \cup {Head(refs)})

Renaming(st, rds) ==
    Bind(ItemRefs(st.items) \o SelRefs(st.selectedItem) \o ReadRefs(rds),
         LAMBDA refs :
    Bind(FirstUses(refs, {}), LAMBDA order :
         [r \in Range(order) \cup {Undef} |->
             IF r = Undef THEN Undef
             ELSE CHOOSE i \in 1..Len(order) : order[i] = r]))

RenameOpts(ren, opts) == [i \in 1..Len(opts) |-> ren[opts[i]]]

RenameItems(ren, its) ==
    [i \in 1..Len(its) |->
        [its[i] EXCEPT !.options = RenameOpts(ren, its[i].options)]]

RenameSel(ren, sel) ==
    IF sel = <<>> THEN <<>>
    ELSE <<[sel[1] EXCEPT !.options = RenameOpts(ren, sel[1].options)]>>

RenameHeap(ren, h) ==
    LET live == (DOMAIN ren) \ {Undef}
    IN  [n \in {ren[r] : r \in live} |->
            h[CHOOSE r \in live : ren[r] = n]]

RenameReads(ren, rds) ==
    [i \in 1..Len(rds) |->
        [rds[i] EXCEPT
            !.c.items = RenameItems(ren, rds[i].c.items),
            !.c.selectedItem = RenameSel(ren, rds[i].c.selectedItem)]]

(***************************************************************************)
(* The remote documents the sessions start from.                           *)
(***************************************************************************)
NoDoc ==
    [exists |-> FALSE, has |-> {}, lastUpdated |-> 0, spaces |-> <<>>,
     items |-> <<>>, groceries |-> <<>>, repairs |-> <<>>]

\* A document written before options had identifiers and before the
\* repairs list existed.
LegacyDoc ==
    [exists |-> TRUE, has |-> {"items", "groceries"}, lastUpdated |-> 0,
     spaces |-> <<>>,
     items |-> << [id |-> "i1", spaceId |-> "1", name |-> "Sofa",
                   image |-> NoImage, order |-> 0,
                   options |->
                       << [NewOption("") EXCEPT !.model = "a", !.winner = TRUE],
                          [NewOption("") EXCEPT !.store = "a"] >>] >>,
     groceries |-> << [id |-> "g1", text |-> "a", completed |-> FALSE] >>,
     repairs |-> <<>>]

FullDoc ==
    [exists |-> TRUE, has |-> Keys, lastUpdated |-> 0,
     spaces |-> [DEFAULT_SPACES EXCEPT ![1].name = "Lounge"],
     items |-> << [id |-> "i2", spaceId |-> "2", name |-> "Lamp",
                   image |-> NoImage, order |-> 0,
                   options |-> << [NewOption("o1") EXCEPT !.model = "a"],
                                  [NewOption("o2") EXCEPT !.winner = TRUE] >>] >>,
     groceries |-> <<>>,
     repairs |-> << [id |-> "r1", text |-> "", completed |-> TRUE] >>]

\* A document in which one option has an identifier and the other has not.
MixedDoc ==
    [LegacyDoc EXCEPT
        !.items = << [id |-> "i1", spaceId |-> "1", name |-> "Sofa",
                      image |-> NoImage, order |-> 0,
                      options |->
                          << [NewOption("o1") EXCEPT !.model = "a",
                                                     !.winner = TRUE],
                             [NewOption("") EXCEPT !.store = "a"] >>] >>]

\* A document with two items, the first with three options.
ThreeDoc ==
    [FullDoc EXCEPT
        !.items = << [id |-> "i1", spaceId |-> "1", name |-> "Sofa",
                      image |-> NoImage, order |-> 0,
                      options |-> << [NewOption("o1") EXCEPT !.model = "a"],
                                     [NewOption("o2") EXCEPT !.winner = TRUE],
                                     [NewOption("o3") EXCEPT !.store = "a"] >>],
                     [id |-> "i2", spaceId |-> "2", name |-> "Lamp",
                      image |-> NoImage, order |-> 1,
                      options |-> << [NewOption("o4") EXCEPT !.model = "b"],
                                     [NewOption("o5") EXCEPT !.store = "b"] >>] >>]

\* The document two addItemToSpace calls on an empty collection leave behind.
TwoAddsDoc ==
    [FullDoc EXCEPT
        !.items = << [id |-> "i1", spaceId |-> "1", name |-> "New Item",
                      image |-> NoImage, order |-> 0, options |-> <<>>],
                     [id |-> "i2", spaceId |-> "2", name |-> "New Item",
                      image |-> NoImage, order |-> 1, options |-> <<>>] >>]

ShareToken == "tok"

GoogleUid == "google"

AnonPool == <<"anon1", "anon2", "anon3", "anon4">>

IsAnonymous(u) == u \in Range(AnonPool)

Paths ==
    {PrivatePath(u) : u \in {GoogleUid} \cup Range(AnonPool)}
        \cup {PublicPath(ShareToken)}

\* The texts of the search: every string of at most MaxText letters.
Alphabet == {"a", "A", "b"}

RECURSIVE StringsUpTo(_)
StringsUpTo(n) ==
    IF n = 0 THEN {""}
    ELSE LET shorter == StringsUpTo(n - 1)
         IN  shorter \cup {str \o ch : str \in shorter, ch \in Alphabet}

Texts == StringsUpTo(MaxText)

ModelTexts == StringsUpTo(1)

\* A document whose item has the given name and two options, the first
\* with the given model and the second with the given store.
SearchDoc(name, model, store) ==
    [exists |-> TRUE, has |-> Keys, lastUpdated |-> 0,
     spaces |-> DEFAULT_SPACES,
     items |-> << [id |-> "i1", spaceId |-> "1", name |-> name,
                   image |-> NoImage, order |-> 0,
                   options |-> << [NewOption("o1") EXCEPT !.model = model],
                                  [NewOption("o2") EXCEPT !.store = store] >>] >>,
     groceries |-> <<>>, repairs |-> <<>>]

\* Inputs of the handlers.
TextInputs == {"b"}

EditedFields == {"model"}

NameInputs == {"Sofa"}

SpaceInputs == {"1"}

ImageInputs == {"img"}

(***************************************************************************)
(* Steps.                                                                  *)
(***************************************************************************)
Op(name, id, idx, to) == [op |-> name, id |-> id, idx |-> idx, to |-> to]

\* The component is unmounted once a render has thrown.
Unmounted == RenderThrows(items, selectedItem)

\* The main view is rendered: not the loading screen, not the error screen.
UIReady == mounted /\ ~loading /\ authError = NoError /\ ~Unmounted

ModalOpen == UIReady /\ selectedItem # <<>>

\* Controls rendered only when !isReadOnly (or inputs that are not readOnly).
Editable == UIReady /\ ~isReadOnly

Budget == clock < MaxClock /\ nextId < MaxIds

SessionVars ==
    <<mounted, shareId, searchQuery, authCalls, authUser, authEvents,
      anonCount, user, isReadOnly, loading, authError, sub, remote>>

\* The document the subscription delivers next.
View(path, pending) ==
    IF path.scope = "users" THEN LocalView(remote[path], pending, path.key)
    ELSE remote[path]

\* The listener is told when the local view of its document changes.
ViewChanged(before, after) ==
    sub # <<>> /\ View(sub[1], before) # View(sub[1], after)

\* A cleanup that leaves the previous listener attached.
Unsubscribe_Leak(listeners) == listeners

\* The cleanup of the Data Sync effect, return () => unsubscribe(): the
\* listener the effect attached is detached.
Unsubscribe(listeners) == <<>>

\* The state updates of a handler are applied, the component renders, the
\* effects of that render run.  A render that throws unmounts the
\* component, and the cleanup of the Data Sync effect detaches its listener.
Settle(st0, rds, op) ==
    \E st1 \in {MigrationEffect(st0, ClosureOf(st0))} :
    \E ren \in {Renaming(st1, rds)} :
        /\ spaces' = st1.spaces
        /\ items' = RenameItems(ren, st1.items)
        /\ groceries' = st1.groceries
        /\ repairs' = st1.repairs
        /\ selectedItem' = RenameSel(ren, st1.selectedItem)
        /\ draggedOptionIdx' = st1.draggedOptionIdx
        /\ heap' = RenameHeap(ren, st1.heap)
        /\ reads' = RenameReads(ren, rds)
        /\ writes' = st1.writes
        /\ nextId' = st1.nextId
        /\ clock' = st1.clock
        /\ snapDue' = (snapDue \/ ViewChanged(writes, st1.writes))
        /\ sub' = IF RenderThrows(st1.items, st1.selectedItem)
                  THEN Unsubscribe(sub) ELSE sub
        /\ last' = op
        /\ UNCHANGED <<mounted, shareId, searchQuery, authCalls, authUser,
                       authEvents, anonCount, user, isReadOnly, loading,
                       authError, remote>>

Handle(st0, op) == Settle(st0, reads, op)

\* --- item list ---------------------------------------------------------
SelectItem ==
    /\ UIReady /\ selectedItem = <<>> /\ nextId < MaxIds
    /\ \E k \in 1..Len(items) :
          Handle([Cur EXCEPT !.selectedItem = <<items[k]>>],
                 Op("selectItem", items[k].id, NoIdx, NoIdx))

CloseModal ==
    /\ ModalOpen
    /\ Handle([Cur EXCEPT !.selectedItem = <<>>],
              Op("closeModal", "", NoIdx, NoIdx))

AddItem ==
    /\ Editable /\ selectedItem = <<>> /\ Budget /\ Len(items) < MaxItems
    /\ \E spaceId \in SpaceInputs :
          Handle(addItemToSpace(Cur, Closure, spaceId),
                 Op("addItemToSpace", spaceId, NoIdx, NoIdx))

\* --- item modal --------------------------------------------------------
RenameItem ==
    /\ ModalOpen /\ ~isReadOnly /\ Budget
    /\ \E n \in NameInputs :
          Handle(updateItem(Cur, Closure, selectedItem[1].id, NameUpdate(n)),
                 Op("renameItem", selectedItem[1].id, NoIdx, NoIdx))

DeleteItem ==
    /\ ModalOpen /\ ~isReadOnly /\ Budget
    /\ Handle(deleteItem(Cur, Closure, selectedItem[1].id),
              Op("deleteItem", selectedItem[1].id, NoIdx, NoIdx))

MarkWinnerClick ==
    /\ ModalOpen /\ ~isReadOnly /\ Budget
    /\ \E idx \in 0..(Len(selectedItem[1].options) - 1) :
          Handle(MarkWinner(Cur, Closure, idx),
                 Op("markWinner", selectedItem[1].id, idx, NoIdx))

EditOption ==
    /\ ModalOpen /\ ~isReadOnly /\ Budget
    /\ \E idx \in 0..(Len(selectedItem[1].options) - 1) :
       \E field \in EditedFields : \E value \in TextInputs :
          Handle(EditOptionField(Cur, Closure, idx, field, value),
                 Op("editOption", field, idx, NoIdx))

DeleteOptionClick ==
    /\ ModalOpen /\ ~isReadOnly /\ Budget
    /\ \E idx \in 0..(Len(selectedItem[1].options) - 1) :
          Handle(DeleteOption(Cur, Closure, idx),
                 Op("deleteOption", selectedItem[1].id, idx, NoIdx))

AddOptionClick ==
    /\ ModalOpen /\ ~isReadOnly /\ Budget
    /\ Len(selectedItem[1].options) < MaxOpts
    /\ Handle(AddOption(Cur, Closure),
              Op("addOption", selectedItem[1].id, NoIdx, NoIdx))

\* dragstart reaching an option card's onDragStart: from the card itself,
\* which is draggable when !isReadOnly, or bubbling from something dragged
\* inside it (the option's image, selected text), whatever isReadOnly is.
DragStart ==
    /\ ModalOpen
    /\ \E idx \in 0..(Len(selectedItem[1].options) - 1) :
          Handle(handleOptionDragStart(Cur, idx),
                 Op("dragStart", selectedItem[1].id, idx, NoIdx))

\* drop on an option card; the drag need not have started on a card of the
\* list as it is now (a drag that ended outside leaves draggedOptionIdx set).
Drop ==
    /\ ModalOpen /\ Budget
    /\ \E dropIndex \in 0..(Len(selectedItem[1].options) - 1) :
          Handle(handleOptionDrop(Cur, Closure, dropIndex),
                 Op("drop", selectedItem[1].id, draggedOptionIdx, dropIndex))

\* --- checklists --------------------------------------------------------
AddGrocery ==
    /\ Editable /\ selectedItem = <<>> /\ Budget
    /\ Len(groceries) < MaxChecklist
    /\ Handle(addGrocery(Cur, Closure), Op("addGrocery", "", NoIdx, NoIdx))

UpdateGrocery ==
    /\ Editable /\ selectedItem = <<>> /\ Budget
    /\ \E k \in 1..Len(groceries) :
          \/ Handle(updateGrocery(Cur, Closure, groceries[k].id, "completed",
                                  ~groceries[k].completed),
                    Op("updateGrocery", groceries[k].id, NoIdx, NoIdx))
          \/ \E value \in TextInputs :
                Handle(updateGrocery(Cur, Closure, groceries[k].id, "text",
                                     value),
                       Op("updateGrocery", groceries[k].id, NoIdx, NoIdx))

DeleteGrocery ==
    /\ Editable /\ selectedItem = <<>> /\ Budget
    /\ \E k \in 1..Len(groceries) :
          Handle(deleteGrocery(Cur, Closure, groceries[k].id),
                 Op("deleteGrocery", groceries[k].id, NoIdx, NoIdx))

AddRepair ==
    /\ Editable /\ selectedItem = <<>> /\ Budget
    /\ Len(repairs) < MaxChecklist
    /\ Handle(addRepair(Cur, Closure), Op("addRepair", "", NoIdx, NoIdx))

UpdateRepair ==
    /\ Editable /\ selectedItem = <<>> /\ Budget
    /\ \E k \in 1..Len(repairs) :
          \/ Handle(updateRepair(Cur, Closure, repairs[k].id, "completed",
                                 ~repairs[k].completed),
                    Op("updateRepair", repairs[k].id, NoIdx, NoIdx))
          \/ \E value \in TextInputs :
                Handle(updateRepair(Cur, Closure, repairs[k].id, "text", value),
                       Op("updateRepair", repairs[k].id, NoIdx, NoIdx))

DeleteRepair ==
    /\ Editable /\ selectedItem = <<>> /\ Budget
    /\ \E k \in 1..Len(repairs) :
          Handle(deleteRepair(Cur, Closure, repairs[k].id),
                 Op("deleteRepair", repairs[k].id, NoIdx, NoIdx))

\* --- image reads -------------------------------------------------------
\* handleSpaceImageUpload / handleItemImageUpload / handleOptionImageUpload
\* with a file: the read starts, onloadend keeps the closure of this render.
NoClosure ==
    [spaces |-> <<>>, items |-> <<>>, groceries |-> <<>>, repairs |-> <<>>,
     selectedItem |-> <<>>, user |-> user, isReadOnly |-> isReadOnly,
     draggedOptionIdx |-> NoIdx]

\* The spaces, the items and the selected item that a closure holds, as they
\* are now.
Captured(h, c) ==
    [spaces |-> c.spaces, items |-> SerItems(h, c.items),
     selectedItem |-> IF c.selectedItem = <<>> THEN <<>>
                      ELSE <<SerItem(h, c.selectedItem[1])>>]

\* A read keeps, for the claims, the values its closure held when it started.
StartRead(rd, op) ==
    /\ Len(reads) < MaxReads /\ Budget
    /\ reads' = Append(reads, rd @@ [held |-> Captured(heap, rd.c)])
    /\ last' = op
    /\ UNCHANGED <<spaces, items, groceries, repairs, selectedItem,
                   draggedOptionIdx, heap, writes, nextId, clock, snapDue>>
    /\ UNCHANGED SessionVars

StartSpaceImageRead ==
    /\ Editable /\ selectedItem = <<>>
    /\ \E spaceId \in SpaceInputs : \E img \in ImageInputs :
          StartRead([kind |-> "space", id |-> spaceId, idx |-> NoIdx,
                     result |-> img,
                     c |-> [NoClosure EXCEPT !.spaces = spaces]],
                    Op("startSpaceRead", spaceId, NoIdx, NoIdx))

StartItemImageRead ==
    /\ ModalOpen /\ ~isReadOnly
    /\ \E img \in ImageInputs :
          StartRead([kind |-> "item", id |-> selectedItem[1].id, idx |-> NoIdx,
                     result |-> img,
                     c |-> [NoClosure EXCEPT !.items = items,
                                             !.selectedItem = selectedItem]],
                    Op("startItemRead", selectedItem[1].id, NoIdx, NoIdx))

StartOptionImageRead ==
    /\ ModalOpen /\ ~isReadOnly
    /\ \E idx \in 0..(Len(selectedItem[1].options) - 1) :
       \E img \in ImageInputs :
          StartRead([kind |-> "option", id |-> selectedItem[1].id, idx |-> idx,
                     result |-> img,
                     c |-> [NoClosure EXCEPT !.items = items,
                                             !.selectedItem = selectedItem]],
                    Op("startOptionRead", selectedItem[1].id, idx, NoIdx))

\* reader.onloadend of one of the pending reads.
ImageReadDone ==
    \E i \in 1..Len(reads) :
        \E rd \in {reads[i]} : \E after \in {ImageLoaded(Cur, rd)} :
            /\ Settle(IF Unmounted THEN KeepState(Cur, after) ELSE after,
                      SubSeq(reads, 1, i - 1) \o SubSeq(reads, i + 1, Len(reads)),
                      Op("imageLoaded", rd.kind, rd.idx, NoIdx))

\* --- session: mount, identity, subscription, store ----------------------
CacheVars ==
    <<spaces, items, groceries, repairs, selectedItem, draggedOptionIdx, heap,
      reads, nextId, clock>>

\* The mount effects: the auth listener is registered (it is told the
\* current identity), the share link is checked; the Data Sync effect
\* returns at once because user is null.
Mount ==
    /\ ~mounted
    /\ mounted' = TRUE
    /\ isReadOnly' = (shareId # NoShare)
    /\ authEvents' = Append(authEvents, authUser)
    /\ last' = Op("mount", shareId, NoIdx, NoIdx)
    /\ UNCHANGED <<shareId, searchQuery, authCalls, authUser, anonCount, user, loading, authError,
                   sub, snapDue, remote, writes>>
    /\ UNCHANGED CacheVars

\* onSnapshot(docPath, ...): a listener on docPath is attached.
Subscribe(listeners, docPath) == Append(listeners, docPath)

\* onAuthStateChanged callback with a user: setUser(u); when user changed,
\* the Data Sync effect cleans up (unsubscribe) and subscribes to docPath.
AuthSignedIn ==
    /\ mounted /\ ~Unmounted /\ authEvents # <<>> /\ Head(authEvents) # NoUser
    /\ LET u == Head(authEvents)
       IN  /\ user' = u
           /\ sub' = IF u # user
                     THEN Subscribe(Unsubscribe(sub),
                                    resolveDocPath(u, shareId))
                     ELSE sub
           /\ snapDue' = IF u # user THEN TRUE ELSE snapDue
           /\ last' = Op("authSignedIn", u, NoIdx, NoIdx)
    /\ authEvents' = Tail(authEvents)
    /\ UNCHANGED <<mounted, shareId, searchQuery, authCalls, authUser, anonCount, isReadOnly, loading,
                   authError, remote, writes>>
    /\ UNCHANGED CacheVars

\* The calls of the auth SDK that were made and awaited (the handler
\* returned to the event loop) and have not settled.
InFlight(calls) == calls.signInAnonymously + calls.signInWithPopup + calls.signOut

\* The identity provider has a new current user: the listeners are told
\* when it is not the user they were told last.
Notify(events, before, after) ==
    IF after # before THEN Append(events, after) ELSE events

\* onAuthStateChanged callback with null: signInAnonymously is called and
\* awaited.
AuthSignedOut ==
    /\ mounted /\ ~Unmounted /\ authEvents # <<>> /\ Head(authEvents) = NoUser
    /\ InFlight(authCalls) < MaxCalls
    /\ authEvents' = Tail(authEvents)
    /\ authCalls' = [authCalls EXCEPT !.signInAnonymously = @ + 1]
    /\ last' = Op("authSignedOut", "", NoIdx, NoIdx)
    /\ UNCHANGED <<anonCount, authUser>>
    /\ UNCHANGED <<mounted, shareId, searchQuery, user, isReadOnly, loading,
                   authError, sub, snapDue, remote, writes>>
    /\ UNCHANGED CacheVars

\* signInAnonymously settles: it gives a new anonymous identity, or it
\* fails and the failure is only logged.
SignInAnonymouslyDone ==
    /\ authCalls.signInAnonymously > 0
    /\ authCalls' = [authCalls EXCEPT !.signInAnonymously = @ - 1]
    /\ \/ /\ anonCount < MaxAnon
          /\ anonCount' = anonCount + 1
          /\ authUser' = AnonPool[anonCount + 1]
          /\ authEvents' = Notify(authEvents, authUser, AnonPool[anonCount + 1])
          /\ last' = Op("signInAnonymously", "anonymous", NoIdx, NoIdx)
       \/ /\ last' = Op("signInAnonymously", "failed", NoIdx, NoIdx)
          /\ UNCHANGED <<anonCount, authUser, authEvents>>
    /\ UNCHANGED <<mounted, shareId, searchQuery, user, isReadOnly, loading,
                   authError, sub, snapDue, remote, writes>>
    /\ UNCHANGED CacheVars

\* "Sign In to Sync" (shown for an anonymous user): handleGoogleLogin calls
\* signInWithPopup and awaits it.
GoogleLogin ==
    /\ UIReady /\ user # NoUser /\ IsAnonymous(user)
    /\ InFlight(authCalls) < MaxCalls
    /\ authCalls' = [authCalls EXCEPT !.signInWithPopup = @ + 1]
    /\ last' = Op("googleLogin", "", NoIdx, NoIdx)
    /\ UNCHANGED <<anonCount, authUser, authEvents>>
    /\ UNCHANGED <<mounted, shareId, searchQuery, user, isReadOnly, loading,
                   authError, sub, snapDue, remote, writes>>
    /\ UNCHANGED CacheVars

\* signInWithPopup settles: the Google user is signed in, or the popup was
\* closed or refused (a toast at most).
SignInWithPopupDone ==
    /\ authCalls.signInWithPopup > 0
    /\ authCalls' = [authCalls EXCEPT !.signInWithPopup = @ - 1]
    /\ \/ /\ authUser' = GoogleUid
          /\ authEvents' = Notify(authEvents, authUser, GoogleUid)
          /\ last' = Op("signInWithPopup", GoogleUid, NoIdx, NoIdx)
       \/ /\ last' = Op("signInWithPopup", "failed", NoIdx, NoIdx)
          /\ UNCHANGED <<authUser, authEvents>>
    /\ UNCHANGED anonCount
    /\ UNCHANGED <<mounted, shareId, searchQuery, user, isReadOnly, loading,
                   authError, sub, snapDue, remote, writes>>
    /\ UNCHANGED CacheVars

\* "Sign Out" (shown for a user that is not anonymous): handleLogout calls
\* signOut and awaits it.
Logout ==
    /\ UIReady /\ user # NoUser /\ ~IsAnonymous(user)
    /\ InFlight(authCalls) < MaxCalls
    /\ authCalls' = [authCalls EXCEPT !.signOut = @ + 1]
    /\ last' = Op("logout", "", NoIdx, NoIdx)
    /\ UNCHANGED <<anonCount, authUser, authEvents>>
    /\ UNCHANGED <<mounted, shareId, searchQuery, user, isReadOnly, loading,
                   authError, sub, snapDue, remote, writes>>
    /\ UNCHANGED CacheVars

\* signOut settles: nobody is signed in, or it failed (logged).
SignOutDone ==
    /\ authCalls.signOut > 0
    /\ authCalls' = [authCalls EXCEPT !.signOut = @ - 1]
    /\ \/ /\ authUser' = NoUser
          /\ authEvents' = Notify(authEvents, authUser, NoUser)
          /\ last' = Op("signOut", "", NoIdx, NoIdx)
       \/ /\ last' = Op("signOut", "failed", NoIdx, NoIdx)
          /\ UNCHANGED <<authUser, authEvents>>
    /\ UNCHANGED anonCount
    /\ UNCHANGED <<mounted, shareId, searchQuery, user, isReadOnly, loading,
                   authError, sub, snapDue, remote, writes>>
    /\ UNCHANGED CacheVars

\* The search input's onChange: a letter is typed or the last one deleted.
SetSearchQuery ==
    /\ UIReady
    /\ \E q \in Texts :
          /\ \/ \E ch \in Alphabet : q = searchQuery \o ch
             \/ /\ searchQuery # ""
                /\ q = SubSeq(searchQuery, 1, Len(searchQuery) - 1)
          /\ searchQuery' = q
          /\ last' = Op("search", q, NoIdx, NoIdx)
    /\ UNCHANGED <<mounted, shareId, authUser, authEvents, authCalls,
                   anonCount, user, isReadOnly, loading, authError, sub,
                   snapDue, remote, writes>>
    /\ UNCHANGED CacheVars

\* A success callback that ends the loading state only for an existing
\* document.
SnapshotDelivered_LoadingIfExists ==
    /\ mounted /\ ~Unmounted /\ sub # <<>> /\ snapDue
    /\ \E doc \in {View(sub[1], writes)} :
       \E st1 \in {SnapshotHandler(Cur, doc)} :
       \E ren \in {Renaming(st1, reads)} :
           /\ spaces' = st1.spaces
           /\ items' = RenameItems(ren, st1.items)
           /\ groceries' = st1.groceries
           /\ repairs' = st1.repairs
           /\ selectedItem' = RenameSel(ren, st1.selectedItem)
           /\ heap' = RenameHeap(ren, st1.heap)
           /\ reads' = RenameReads(ren, reads)
           /\ loading' = IF doc.exists THEN FALSE ELSE loading
    /\ snapDue' = FALSE
    /\ last' = Op("snapshot", sub[1].key, NoIdx, NoIdx)
    /\ UNCHANGED <<mounted, shareId, searchQuery, authCalls, authUser, authEvents,
                   anonCount, user, isReadOnly, authError, sub, remote,
                   writes, draggedOptionIdx, nextId, clock>>

\* A success callback that also clears the error.
SnapshotDelivered_ClearsError ==
    /\ mounted /\ ~Unmounted /\ sub # <<>> /\ snapDue
    /\ \E doc \in {View(sub[1], writes)} :
       \E st1 \in {SnapshotHandler(Cur, doc)} :
       \E ren \in {Renaming(st1, reads)} :
           /\ spaces' = st1.spaces
           /\ items' = RenameItems(ren, st1.items)
           /\ groceries' = st1.groceries
           /\ repairs' = st1.repairs
           /\ selectedItem' = RenameSel(ren, st1.selectedItem)
           /\ heap' = RenameHeap(ren, st1.heap)
           /\ reads' = RenameReads(ren, reads)
    /\ loading' = FALSE
    /\ authError' = NoError
    /\ snapDue' = FALSE
    /\ last' = Op("snapshot", sub[1].key, NoIdx, NoIdx)
    /\ UNCHANGED <<mounted, shareId, searchQuery, authCalls, authUser, authEvents, anonCount, user,
                   isReadOnly, sub, remote, writes,
                   draggedOptionIdx, nextId, clock>>

\* The subscription delivers its document.
SnapshotDelivered ==
    /\ mounted /\ ~Unmounted /\ sub # <<>> /\ snapDue
    /\ \E doc \in {View(sub[1], writes)} :
       \E st1 \in {SnapshotHandler(Cur, doc)} :
       \E ren \in {Renaming(st1, reads)} :
           /\ spaces' = st1.spaces
           /\ items' = RenameItems(ren, st1.items)
           /\ groceries' = st1.groceries
           /\ repairs' = st1.repairs
           /\ selectedItem' = RenameSel(ren, st1.selectedItem)
           /\ heap' = RenameHeap(ren, st1.heap)
           /\ reads' = RenameReads(ren, reads)
    /\ loading' = FALSE
    /\ snapDue' = FALSE
    /\ last' = Op("snapshot", sub[1].key, NoIdx, NoIdx)
    /\ UNCHANGED <<mounted, shareId, searchQuery, authCalls, authUser, authEvents, anonCount, user,
                   isReadOnly, authError, sub, remote, writes,
                   draggedOptionIdx, nextId, clock>>

ErrorCodes == {"permission-denied", "unavailable"}

ErrorMessage(code) ==
    IF code = "permission-denied"
    THEN "Database permission denied. Checking security rules..."
    ELSE code

\* onSnapshot error callback; the listener is finished after an error.
SnapshotError ==
    /\ mounted /\ ~Unmounted /\ sub # <<>>
    /\ \E code \in ErrorCodes :
          /\ authError' = ErrorMessage(code)
          /\ last' = Op("snapshotError", code, NoIdx, NoIdx)
    /\ loading' = FALSE
    /\ sub' = <<>>
    /\ snapDue' = FALSE
    /\ UNCHANGED <<mounted, shareId, searchQuery, authCalls, authUser, authEvents, anonCount, user,
                   isReadOnly, remote, writes>>
    /\ UNCHANGED CacheVars

\* The store rejects data that contains undefined.
Storable(updates) ==
    \A i \in 1..Len(updates.items) : UndefOpt \notin Range(updates.items[i].options)

\* The oldest pending write reaches the store and is merged.
WriteApplied ==
    /\ writes # <<>> /\ Storable(Head(writes).updates)
    /\ LET w == Head(writes)
           path == PrivatePath(w.uid)
       IN  /\ remote' = [remote EXCEPT ![path] = MergeWrite(@, w.updates)]
           /\ last' = Op("writeApplied", w.uid, NoIdx, NoIdx)
    /\ writes' = Tail(writes)
    /\ UNCHANGED <<mounted, shareId, searchQuery, authCalls, authUser, authEvents, anonCount, user,
                   isReadOnly, loading, authError, sub, snapDue>>
    /\ UNCHANGED CacheVars

\* A catch block that shows the error and tries the write again.
WriteFailed_Retry ==
    /\ writes # <<>>
    /\ writes' = Append(Tail(writes), Head(writes))
    /\ authError' = "write failed"
    /\ last' = Op("writeFailed", Head(writes).uid, NoIdx, NoIdx)
    /\ UNCHANGED <<mounted, shareId, searchQuery, authCalls, authUser, authEvents, anonCount, user,
                   isReadOnly, loading, sub, snapDue, remote>>
    /\ UNCHANGED CacheVars

\* The oldest pending write fails; saveData logs the error and goes on.  The
\* store takes the write out of its local view.
WriteFailed ==
    /\ writes # <<>>
    /\ writes' = Tail(writes)
    /\ snapDue' = (snapDue \/ ViewChanged(writes, Tail(writes)))
    /\ last' = Op("writeFailed", Head(writes).uid, NoIdx, NoIdx)
    /\ UNCHANGED <<mounted, shareId, searchQuery, authCalls, authUser, authEvents, anonCount, user,
                   isReadOnly, loading, authError, sub, remote>>
    /\ UNCHANGED CacheVars

(***************************************************************************)
(* The specification.                                                      *)
(***************************************************************************)
Init ==
    /\ mounted = FALSE
    /\ shareId \in {NoShare, ShareToken}
    /\ authUser \in {NoUser, GoogleUid}
    /\ authEvents = <<>>
    /\ anonCount = 0
    /\ user = NoUser
    /\ isReadOnly = FALSE
    /\ loading = TRUE
    /\ searchQuery = ""
    /\ authCalls = NoCalls
    /\ authError = NoError
    /\ spaces = DEFAULT_SPACES
    /\ items = <<>>
    /\ groceries = <<>>
    /\ repairs = <<>>
    /\ selectedItem = <<>>
    /\ draggedOptionIdx = NoIdx
    /\ heap = <<>>
    /\ sub = <<>>
    /\ snapDue = FALSE
    /\ \E d \in {LegacyDoc, FullDoc} :
          remote = [p \in Paths |->
                       IF p = resolveDocPath(GoogleUid, shareId) THEN d
                       ELSE NoDoc]
    /\ writes = <<>>
    /\ reads = <<>>
    /\ nextId = 0
    /\ clock = 1
    /\ last = Op("init", "", NoIdx, NoIdx)

Next ==
    \/ Mount \/ AuthSignedIn \/ AuthSignedOut \/ SignInAnonymouslyDone
    \/ GoogleLogin \/ SignInWithPopupDone \/ Logout \/ SignOutDone
    \/ SnapshotDelivered \/ SnapshotError \/ WriteApplied \/ WriteFailed
    \/ SelectItem \/ CloseModal \/ AddItem \/ RenameItem \/ DeleteItem
    \/ MarkWinnerClick \/ EditOption \/ DeleteOptionClick \/ AddOptionClick
    \/ DragStart \/ Drop
    \/ AddGrocery \/ UpdateGrocery \/ DeleteGrocery
    \/ AddRepair \/ UpdateRepair \/ DeleteRepair
    \/ StartSpaceImageRead \/ StartItemImageRead \/ StartOptionImageRead
    \/ ImageReadDone

Spec == Init /\ [][Next]_vars

(***************************************************************************)
(* The item modal: a signed-in, writable session whose document holds an   *)
(* item with two options.  Applying a pending write does not change what   *)
(* the listener is given (LocalView), so the store is left out here.       *)
(***************************************************************************)
InitItems ==
    /\ Init /\ shareId = NoShare /\ authUser = GoogleUid
    /\ remote[PrivatePath(GoogleUid)] = FullDoc

NextItems ==
    \/ Mount \/ AuthSignedIn \/ SnapshotDelivered
    \/ SelectItem \/ CloseModal
    \/ MarkWinnerClick \/ EditOption \/ DeleteOptionClick \/ AddOptionClick
    \/ DragStart \/ Drop
    \/ StartOptionImageRead \/ ImageReadDone

SpecItems == InitItems /\ [][NextItems]_vars

(***************************************************************************)
(* The item list: adding, renaming, deleting items and setting an item's   *)
(* image, with the store applying the writes.                              *)
(***************************************************************************)
NextItemOps ==
    \/ Mount \/ AuthSignedIn \/ SnapshotDelivered \/ WriteApplied
    \/ SelectItem \/ CloseModal \/ AddItem \/ RenameItem \/ DeleteItem
    \/ StartItemImageRead \/ ImageReadDone

SpecItemOps == InitItems /\ [][NextItemOps]_vars

(***************************************************************************)
(* The synchronous handlers of the item list and the item modal, no image  *)
(* read in flight.                                                         *)
(***************************************************************************)
NextEdit ==
    \/ Mount \/ AuthSignedIn \/ SnapshotDelivered
    \/ SelectItem \/ CloseModal \/ AddItem \/ RenameItem \/ DeleteItem
    \/ MarkWinnerClick \/ EditOption \/ DeleteOptionClick \/ AddOptionClick
    \/ DragStart \/ Drop

SpecEdit == InitItems /\ [][NextEdit]_vars

(***************************************************************************)
(* Synchronisation: a signed-in, writable session that edits each of the   *)
(* four collections while the store applies the writes and the listener    *)
(* delivers snapshots.  The document is the legacy one or the full one.    *)
(***************************************************************************)
InitSync == Init /\ shareId = NoShare /\ authUser = GoogleUid

NextSync ==
    \/ Mount \/ AuthSignedIn \/ SnapshotDelivered \/ WriteApplied
    \/ SelectItem \/ CloseModal \/ RenameItem
    \/ UpdateGrocery \/ AddRepair
    \/ StartSpaceImageRead \/ ImageReadDone

SpecSync == InitSync /\ [][NextSync]_vars

\* Every issued write succeeds and is delivered, the listener delivers its
\* snapshots, the file reads complete, the effects and callbacks run.
SpecLive ==
    /\ SpecSync
    /\ WF_vars(Mount) /\ WF_vars(AuthSignedIn) /\ WF_vars(SnapshotDelivered)
    /\ WF_vars(WriteApplied) /\ WF_vars(ImageReadDone)

(***************************************************************************)
(* Sessions: with and without a share token, signed in or not at page      *)
(* load, with the sign-in, sign-out and anonymous fallback, each call of   *)
(* the auth SDK settling later than it was made, and the listener's        *)
(* errors.                                                                 *)
(***************************************************************************)
NextSession ==
    \/ Mount \/ AuthSignedIn \/ AuthSignedOut \/ SignInAnonymouslyDone
    \/ GoogleLogin \/ SignInWithPopupDone \/ Logout \/ SignOutDone
    \/ SnapshotDelivered \/ SnapshotError

SpecSession == Init /\ [][NextSession]_vars

(***************************************************************************)
(* Visits: the page is opened with or without a share token, signed in or  *)
(* through the anonymous fallback and Google later, and an item is opened, *)
(* renamed and its options dragged and dropped.                            *)
(***************************************************************************)
NextVisit ==
    \/ Mount \/ AuthSignedIn \/ AuthSignedOut \/ SignInAnonymouslyDone
    \/ GoogleLogin \/ SignInWithPopupDone
    \/ SnapshotDelivered \/ SnapshotError
    \/ SelectItem \/ CloseModal \/ RenameItem \/ DragStart \/ Drop

SpecVisit == Init /\ [][NextVisit]_vars

(***************************************************************************)
(* Failures: a signed-in, writable session in which the listener may fail  *)
(* and writes may be rejected, while an item is renamed and given an       *)
(* image.                                                                  *)
(***************************************************************************)
NextErr ==
    \/ Mount \/ AuthSignedIn \/ SnapshotDelivered \/ SnapshotError
    \/ WriteApplied \/ WriteFailed
    \/ SelectItem \/ CloseModal \/ RenameItem
    \/ StartItemImageRead \/ ImageReadDone

SpecErr == InitItems /\ [][NextErr]_vars

(***************************************************************************)
(* The mutation handlers of the checklists and of the item list, in a      *)
(* signed-in, writable session.                                            *)
(***************************************************************************)
NextHandlers ==
    \/ Mount \/ AuthSignedIn \/ SnapshotDelivered
    \/ AddGrocery \/ UpdateGrocery \/ DeleteGrocery
    \/ AddRepair \/ UpdateRepair \/ DeleteRepair
    \/ AddItem \/ SelectItem \/ CloseModal \/ RenameItem \/ DeleteItem

SpecHandlers == InitSync /\ [][NextHandlers]_vars

(***************************************************************************)
(* The repairs list across identities: a writable session that may start   *)
(* anonymous, signs in and out, adds repairs, and whose writes may fail.   *)
(***************************************************************************)
InitRepairs == Init /\ shareId = NoShare

NextRepairs ==
    \/ Mount \/ AuthSignedIn \/ AuthSignedOut \/ SignInAnonymouslyDone
    \/ GoogleLogin \/ SignInWithPopupDone \/ Logout \/ SignOutDone
    \/ SnapshotDelivered \/ WriteApplied \/ WriteFailed
    \/ AddRepair \/ DeleteRepair

SpecRepairs == InitRepairs /\ [][NextRepairs]_vars

(***************************************************************************)
(* Search: a signed-in session whose document holds one item; the name of  *)
(* the item and the store of its second option are any texts, the model of *)
(* its first option is empty or one letter; any text is typed in the       *)
(* search box.                                                             *)
(***************************************************************************)
InitSearch ==
    /\ mounted = FALSE
    /\ shareId = NoShare
    /\ authUser = GoogleUid
    /\ authEvents = <<>>
    /\ anonCount = 0
    /\ user = NoUser
    /\ isReadOnly = FALSE
    /\ loading = TRUE
    /\ searchQuery = ""
    /\ authCalls = NoCalls
    /\ authError = NoError
    /\ spaces = DEFAULT_SPACES
    /\ items = <<>>
    /\ groceries = <<>>
    /\ repairs = <<>>
    /\ selectedItem = <<>>
    /\ draggedOptionIdx = NoIdx
    /\ heap = <<>>
    /\ sub = <<>>
    /\ snapDue = FALSE
    /\ \E name \in Texts, model \in ModelTexts, store \in Texts :
          remote = [p \in Paths |->
                       IF p = PrivatePath(GoogleUid)
                       THEN SearchDoc(name, model, store) ELSE NoDoc]
    /\ writes = <<>>
    /\ reads = <<>>
    /\ nextId = 0
    /\ clock = 1
    /\ last = Op("init", "", NoIdx, NoIdx)

NextSearch == Mount \/ AuthSignedIn \/ SnapshotDelivered \/ SetSearchQuery

SpecSearch == InitSearch /\ [][NextSearch]_vars

(***************************************************************************)
(* The backfill of option identifiers: a document whose options lack some  *)
(* or all identifiers is opened by its owner or through a share link, and  *)
(* an item is opened, given an option, closed and opened again.            *)
(***************************************************************************)
InitBackfill ==
    /\ mounted = FALSE
    /\ shareId \in {NoShare, ShareToken}
    /\ authUser \in {NoUser, GoogleUid}
    /\ authEvents = <<>>
    /\ anonCount = 0
    /\ user = NoUser
    /\ isReadOnly = FALSE
    /\ loading = TRUE
    /\ searchQuery = ""
    /\ authCalls = NoCalls
    /\ authError = NoError
    /\ spaces = DEFAULT_SPACES
    /\ items = <<>>
    /\ groceries = <<>>
    /\ repairs = <<>>
    /\ selectedItem = <<>>
    /\ draggedOptionIdx = NoIdx
    /\ heap = <<>>
    /\ sub = <<>>
    /\ snapDue = FALSE
    /\ \E d \in {LegacyDoc, MixedDoc} :
          remote = [p \in Paths |->
                       IF p = resolveDocPath(GoogleUid, shareId) THEN d
                       ELSE NoDoc]
    /\ writes = <<>>
    /\ reads = <<>>
    /\ nextId = 0
    /\ clock = 1
    /\ last = Op("init", "", NoIdx, NoIdx)

NextBackfill ==
    \/ Mount \/ AuthSignedIn \/ AuthSignedOut \/ SignInAnonymouslyDone
    \/ SnapshotDelivered \/ WriteApplied \/ WriteFailed
    \/ SelectItem \/ CloseModal \/ DeleteOptionClick

SpecBackfill == InitBackfill /\ [][NextBackfill]_vars

(***************************************************************************)
(* Reordering: the options of an item with three options and of one with   *)
(* two are dragged and dropped, by the owner or through a share link.      *)
(***************************************************************************)
InitReorder ==
    /\ mounted = FALSE
    /\ shareId \in {NoShare, ShareToken}
    /\ authUser = GoogleUid
    /\ authEvents = <<>>
    /\ anonCount = 0
    /\ user = NoUser
    /\ isReadOnly = FALSE
    /\ loading = TRUE
    /\ searchQuery = ""
    /\ authCalls = NoCalls
    /\ authError = NoError
    /\ spaces = DEFAULT_SPACES
    /\ items = <<>>
    /\ groceries = <<>>
    /\ repairs = <<>>
    /\ selectedItem = <<>>
    /\ draggedOptionIdx = NoIdx
    /\ heap = <<>>
    /\ sub = <<>>
    /\ snapDue = FALSE
    /\ remote = [p \in Paths |->
                    IF p = resolveDocPath(GoogleUid, shareId) THEN ThreeDoc
                    ELSE NoDoc]
    /\ writes = <<>>
    /\ reads = <<>>
    /\ nextId = 0
    /\ clock = 1
    /\ last = Op("init", "", NoIdx, NoIdx)

NextReorder ==
    \/ Mount \/ AuthSignedIn \/ SnapshotDelivered \/ WriteApplied
    \/ SelectItem \/ CloseModal \/ DragStart \/ Drop

SpecReorder == InitReorder /\ [][NextReorder]_vars

(***************************************************************************)
(* The order values: the owner, or a visitor through a share link, adds    *)
(* and deletes items of a collection that two adds have built, or of one   *)
(* that holds a single item.                                               *)
(***************************************************************************)
InitOrder ==
    /\ mounted = FALSE
    /\ shareId \in {NoShare, ShareToken}
    /\ authUser = GoogleUid
    /\ authEvents = <<>>
    /\ anonCount = 0
    /\ user = NoUser
    /\ isReadOnly = FALSE
    /\ loading = TRUE
    /\ searchQuery = ""
    /\ authCalls = NoCalls
    /\ authError = NoError
    /\ spaces = DEFAULT_SPACES
    /\ items = <<>>
    /\ groceries = <<>>
    /\ repairs = <<>>
    /\ selectedItem = <<>>
    /\ draggedOptionIdx = NoIdx
    /\ heap = <<>>
    /\ sub = <<>>
    /\ snapDue = FALSE
    /\ \E d \in {TwoAddsDoc, FullDoc} :
          remote = [p \in Paths |->
                       IF p = resolveDocPath(GoogleUid, shareId) THEN d
                       ELSE NoDoc]
    /\ writes = <<>>
    /\ reads = <<>>
    /\ nextId = 0
    /\ clock = 1
    /\ last = Op("init", "", NoIdx, NoIdx)

NextOrder ==
    \/ Mount \/ AuthSignedIn \/ SnapshotDelivered \/ WriteApplied
    \/ AddItem \/ SelectItem \/ CloseModal \/ DeleteItem

SpecOrder == InitOrder /\ [][NextOrder]_vars

(***************************************************************************)
(* The selection: a writable session, signed in or anonymous at first,     *)
(* adds, opens and deletes items while its writes are applied or rejected  *)
(* and the listener delivers the document.                                 *)
(***************************************************************************)
NextSelection ==
    \/ Mount \/ AuthSignedIn \/ AuthSignedOut \/ SignInAnonymouslyDone
    \/ GoogleLogin \/ SignInWithPopupDone
    \/ SnapshotDelivered \/ WriteApplied \/ WriteFailed
    \/ AddItem \/ SelectItem \/ CloseModal \/ DeleteItem

SpecSelection == InitRepairs /\ [][NextSelection]_vars

(***************************************************************************)
(* Loading: sessions in which every anonymous sign-in succeeds and the     *)
(* store answers each subscription, with the document or with an error.    *)
(***************************************************************************)
\* signInAnonymously resolving.
AnonymousSignIn == SignInAnonymouslyDone /\ last'.id = "anonymous"

NextLoading ==
    \/ Mount \/ AuthSignedIn \/ AuthSignedOut \/ AnonymousSignIn
    \/ GoogleLogin \/ SignInWithPopupDone \/ Logout \/ SignOutDone
    \/ SnapshotDelivered \/ SnapshotError

SpecLoading ==
    /\ Init /\ [][NextLoading]_vars
    /\ WF_vars(Mount) /\ WF_vars(AuthSignedIn) /\ WF_vars(AuthSignedOut)
    /\ WF_vars(AnonymousSignIn)
    /\ WF_vars(SnapshotDelivered)

(***************************************************************************)
(* Properties.                                                             *)
(***************************************************************************)
Winners(h, opts) == {i \in 1..Len(opts) : opts[i] # Undef /\ h[opts[i]].winner}

EntriesOf(its, id) == {k \in 1..Len(its) : its[k].id = id}

Count(s, v) == Cardinality({i \in 1..Len(s) : s[i] = v})

IsPermutation(a, b) ==
    /\ Len(a) = Len(b)
    /\ \A v \in Range(a) \cup Range(b) : Count(a, v) = Count(b, v)

\* C1: when the "Mark as Winner" handler sets the flag of the option at idx
\* (it was false before), then right after the handler the option at idx is
\* the one and only winner of the item's option list, in selectedItem and
\* in the entry of items with the same id.
C1_MarkWinnerLeavesOneWinner ==
    [][(/\ last'.op = "markWinner"
        /\ ~heap[selectedItem[1].options[last'.idx + 1]].winner)
       => /\ selectedItem' # <<>>
          /\ Winners(heap', selectedItem'[1].options) = {last'.idx + 1}
          /\ \A k \in EntriesOf(items', selectedItem[1].id) :
                Winners(heap', items'[k].options) = {last'.idx + 1}]_vars

\* A winner was marked on an item with two options, and the items entry of
\* the item shows it.
C1_Witness ==
    /\ last.op = "markWinner"
    /\ selectedItem # <<>>
    /\ Len(selectedItem[1].options) >= 2
    /\ heap[selectedItem[1].options[last.idx + 1]].winner
    /\ EntriesOf(items, selectedItem[1].id) # {}

\* C2: every item of the cache has at most one option with winner = true.
C2_AtMostOneWinner ==
    \A k \in 1..Len(items) : Cardinality(Winners(heap, items[k].options)) <= 1

\* C9: a handled drop leaves the option sequence of the item a permutation
\* of what it was: the same options with the same field values, nothing
\* added, dropped or undefined.
C9_DropPermutes ==
    [][last'.op = "drop"
       => /\ selectedItem' # <<>>
          /\ Undef \notin Range(selectedItem'[1].options)
          /\ IsPermutation(SerOptions(heap', selectedItem'[1].options),
                           SerOptions(heap, selectedItem[1].options))]_vars

\* C8: deleteItem(id) with selectedItem.id = id leaves selectedItem null and
\* no item with that id in the collection.
C8_DeleteClearsSelection ==
    [][last'.op = "deleteItem"
       => /\ selectedItem' = <<>>
          /\ EntriesOf(items', selectedItem[1].id) = {}]_vars

\* The selected item was deleted while other items remain.
C8_Witness ==
    /\ last.op = "deleteItem"
    /\ selectedItem = <<>>
    /\ items # <<>>

\* The cache without the images: what an image read may not change.
WithoutImages(h, its) ==
    [k \in 1..Len(its) |->
        [its[k] EXCEPT
            !.image = NoImage,
            !.options = [i \in 1..Len(its[k].options) |->
                            IF its[k].options[i] = Undef THEN UndefOpt
                            ELSE [h[its[k].options[i]] EXCEPT
                                     !.image = NoImage]]]]

\* C6: no local edit is lost to a race: a handler that completes later than
\* it was started (an image read) leaves the collections as the edits made
\* in between left them, apart from the image it sets.
C6_NoEditLost ==
    [][last'.op = "imageLoaded"
       => /\ WithoutImages(heap', items') = WithoutImages(heap, items)
          /\ groceries' = groceries
          /\ repairs' = repairs]_vars

\* The value of a collection in the cache, as the store would hold it.
CacheValue(k) ==
    IF k = "spaces" THEN spaces
    ELSE IF k = "items" THEN SerItems(heap, items)
    ELSE IF k = "groceries" THEN groceries
    ELSE repairs

\* C3: applying a saveData write leaves every collection key the call did
\* not provide as it was in the remote document (value and presence), and
\* leaves every other document alone.
C3_PersistKeepsOtherKeys ==
    [][last'.op = "writeApplied"
       => LET w == Head(writes)
              p == PrivatePath(w.uid)
          IN  /\ \A k \in Keys \ w.updates.has :
                    /\ remote'[p][k] = remote[p][k]
                    /\ (k \in remote'[p].has) = (k \in remote[p].has)
              /\ \A q \in Paths \ {p} : remote'[q] = remote[q]]_vars

\* A write of items only (the identifier backfill of the legacy document)
\* was applied, and the groceries of the document are as they were.
C3_Witness ==
    /\ last.op = "writeApplied"
    /\ remote[PrivatePath(GoogleUid)].items # LegacyDoc.items
    /\ remote[PrivatePath(GoogleUid)].groceries = LegacyDoc.groceries
    /\ LegacyDoc.groceries # <<>>

\* C4: the snapshot handler sets each collection whose key the delivered
\* document has to the document's value and leaves each collection whose
\* key is absent (or all four, when the document does not exist) as it was.
C4_SnapshotSparseMerge ==
    [][last'.op = "snapshot"
       => LET doc == View(sub[1], writes)
          IN  \A k \in Keys :
                 CacheValue(k)' = IF doc.exists /\ k \in doc.has THEN doc[k]
                                  ELSE CacheValue(k)]_vars

\* A snapshot of the legacy document was delivered: its items are in the
\* cache, and the spaces, which it lacks, are still the default ones.
C4_Witness ==
    /\ last.op = "snapshot"
    /\ "spaces" \notin remote[PrivatePath(GoogleUid)].has
    /\ "items" \in remote[PrivatePath(GoogleUid)].has
    /\ spaces = DEFAULT_SPACES
    /\ SerItems(heap, items) = LegacyDoc.items

\* The cache and the remote document of the session agree on every
\* collection the document holds, and no write is pending.
Consistent ==
    /\ user # NoUser
    /\ writes = <<>>
    /\ LET doc == remote[PrivatePath(user)]
       IN  \A k \in Keys : k \in doc.has => CacheValue(k) = doc[k]

\* C7: in a writable session in which every write succeeds and is
\* delivered, once the edits stop the remote document and the cache agree
\* on every persisted collection, and stay so.
C7_EventuallyConsistent == <>[]Consistent

\* Writes were issued and applied, and the document and the cache agree.
C7_Witness ==
    /\ Consistent
    /\ clock = MaxClock
    /\ remote[PrivatePath(GoogleUid)].lastUpdated = MaxClock - 1
    /\ reads = <<>> /\ ~snapDue

\* C5: in a session opened with a share token, and while user is null, no
\* step issues a write: the queue of writes and the clock stay as they are.
C5_NoWriteWhenReadOnly ==
    [][(shareId # NoShare \/ user = NoUser)
       => (writes' = writes /\ clock' = clock)]_vars

\* In a share session an item of the legacy document was opened: the
\* backfill effect gave its options identifiers and nothing was written.
C5_Witness ==
    /\ shareId # NoShare
    /\ last.op = "selectItem"
    /\ selectedItem # <<>>
    /\ remote[PublicPath(shareId)] = LegacyDoc
    /\ \A i \in 1..Len(selectedItem[1].options) :
          heap[selectedItem[1].options[i]].id # ""
    /\ writes = <<>>

\* C10 as stated: once the subscription reads from a path, it never reads
\* from another one.
C10_PathNeverChanges ==
    [][(sub # <<>> /\ sub' # <<>>) => sub' = sub]_vars

\* C10 amended: the subscription reads from the public path of the share
\* token when there is one, whatever the identity, and otherwise from the
\* private path of the current identity.
C10_PathFollowsIdentity ==
    [][sub' # <<>>
       => sub'[1] = IF shareId # NoShare THEN PublicPath(shareId)
                    ELSE PrivatePath(user')]_vars

\* After the anonymous fallback the user signed in with Google, and the
\* subscription moved to the private path of the Google identity.
C10_Witness ==
    /\ last.op = "authSignedIn"
    /\ shareId = NoShare
    /\ anonCount > 0
    /\ user = GoogleUid
    /\ sub = <<PrivatePath(GoogleUid)>>

\* C11: at most one listener is attached at any time, and a snapshot that
\* is merged into the cache comes from the one listener attached, which
\* reads the path of the current identity (never from a detached one).
C11_OneSubscription ==
    [][/\ Len(sub') <= 1
       /\ (last'.op = "snapshot"
              => sub = <<resolveDocPath(user, shareId)>>)]_vars

\* After the anonymous fallback and a Google sign-in, the listener of the
\* Google identity delivered a snapshot.
C11_Witness ==
    /\ last.op = "snapshot"
    /\ shareId = NoShare
    /\ anonCount > 0
    /\ user = GoogleUid
    /\ sub = <<PrivatePath(GoogleUid)>>

\* C12: the error handler of the listener sets authError, and once it has
\* been set for a permission-denied error no step issues a write any more,
\* the completion of an image read that was pending included.
C12_NoWriteAfterDenied ==
    [][/\ (last'.op = "snapshotError" => authError' # NoError)
       /\ (authError = ErrorMessage("permission-denied") => clock' = clock)]_vars

\* C13: when a write fails, the cache, authError and loading stay as they
\* are, the write leaves the queue, the document is not changed and no
\* other write is issued.
C13_FailedWriteSwallowed ==
    [][last'.op = "writeFailed"
       => /\ UNCHANGED <<spaces, items, groceries, repairs, selectedItem,
                         heap, authError, loading, clock, remote>>
          /\ writes' = Tail(writes)]_vars

\* The write of a renamed item failed: the cache has the new name, the
\* document has the old one, no error is shown.
C13_Witness ==
    /\ last.op = "writeFailed"
    /\ writes = <<>>
    /\ authError = NoError
    /\ items # <<>>
    /\ SerItems(heap, items) # remote[PrivatePath(GoogleUid)].items

\* The collection a mutation handler changes, by the name of its step.
ChangedKey(op) ==
    IF op \in {"addGrocery", "updateGrocery", "deleteGrocery"}
    THEN "groceries"
    ELSE IF op \in {"addRepair", "updateRepair", "deleteRepair"}
    THEN "repairs"
    ELSE "items"

MutationOps ==
    {"addGrocery", "updateGrocery", "deleteGrocery", "addRepair",
     "updateRepair", "deleteRepair", "addItemToSpace", "renameItem",
     "deleteItem"}

\* C14: in a writable session with an identity every mutation handler
\* issues exactly one write, to the document of the identity, whose only
\* collection key is the collection the handler changed and whose value is
\* the value the handler put in the cache.
C14_OneWritePerMutation ==
    [][(last'.op \in MutationOps /\ user # NoUser /\ ~isReadOnly)
       => /\ Len(writes') = Len(writes) + 1
          /\ SubSeq(writes', 1, Len(writes)) = writes
          /\ clock' = clock + 1
          /\ \A k \in Keys :
                k = ChangedKey(last'.op)
                => LET w == writes'[Len(writes')]
                   IN  /\ w.uid = user
                       /\ w.updates.has = {k}
                       /\ w.updates[k] = CacheValue(k)'
                       /\ w.updates.lastUpdated = clock]_vars

\* A repair was added and the one write issued for it is pending.
C14_Witness ==
    /\ last.op = "addRepair"
    /\ writes # <<>>
    /\ writes[Len(writes)].updates.has = {"repairs"}
    /\ writes[Len(writes)].updates.repairs = repairs
    /\ Len(repairs) = MaxChecklist

\* C15: once authError is set it is never cleared, and the normal view is
\* never rendered again, whatever snapshots, auth events or
\* re-subscriptions follow.
C15_ReadErrorTerminal ==
    [][authError # NoError => (authError' # NoError /\ ~UIReady')]_vars

\* The listener failed, then the identity changed and the new listener
\* delivered a snapshot: the error is still there.
C15_Witness ==
    /\ authError # NoError
    /\ last.op = "snapshot"
    /\ sub # <<>>
    /\ ~loading

\* C16: when the sign-in fails, an error message is set and the loading
\* state has ended.
C16_AuthFailureShown ==
    [][(last'.op = "signInAnonymously" /\ last'.id = "failed")
       => (authError' # NoError /\ ~loading')]_vars

\* C17: after any snapshot of an existing document without the repairs key
\* is handled, the local repairs list is empty.
C17_LegacyRepairsEmpty ==
    [][(/\ last'.op = "snapshot"
        /\ View(sub[1], writes).exists
        /\ "repairs" \notin View(sub[1], writes).has)
       => repairs' = <<>>]_vars

\* The query is a substring of the text when letters are compared without
\* regard to case.
SubstringNoCase(query, text) ==
    \E off \in 0..(Len(text) - Len(query)) :
       \A j \in 1..Len(query) :
          LowerOf(SubSeq(query, j, j)) = LowerOf(SubSeq(text, off + j, off + j))

\* C18: an item is in the search results exactly when the query is a
\* case-insensitive substring of its name, or of the model or the store of
\* one of its options.
C18_SearchMatches ==
    \A k \in 1..Len(items) :
       (items[k] \in Range(searchResults(heap, items, searchQuery)))
       <=> (\/ SubstringNoCase(searchQuery, items[k].name)
            \/ \E i \in 1..Len(items[k].options) :
                   \/ SubstringNoCase(searchQuery, heap[items[k].options[i]].model)
                   \/ SubstringNoCase(searchQuery, heap[items[k].options[i]].store))

\* An item found by the store of an option alone, in another case.
C18_Witness ==
    /\ last.op = "search" /\ searchQuery = "Ab" /\ items # <<>>
    /\ items[1].name = "b" /\ heap[items[1].options[1]].model = "a"
    /\ heap[items[1].options[2]].store = "ab"
    /\ searchResults(heap, items, searchQuery) = items

\* C19: when an item is selected, every option of selectedItem and of the
\* items entry has an identifier once the effect has run; an option that
\* had one is the same object, an option that had none differs from what it
\* was by its identifier only; a writable session that patched an option
\* issues exactly one write, of the patched items, any other none; and the
\* effect, run again, changes nothing.
C19_BackfillOnSelect ==
    [][last'.op = "selectItem"
       => \A k \in 1..Len(items) :
             items[k].id = last'.id
             => LET old == SerOptions(heap, items[k].options)
                    sel == SerOptions(heap', selectedItem'[1].options)
                    patched == \E i \in 1..Len(old) : old[i].id = ""
                IN  /\ Len(sel) = Len(old)
                    /\ SerOptions(heap', items'[k].options) = sel
                    /\ \A i \in 1..Len(old) :
                          /\ sel[i].id # ""
                          /\ old[i].id # "" => sel[i] = old[i]
                          /\ [sel[i] EXCEPT !.id = old[i].id] = old[i]
                    /\ IF patched /\ user # NoUser /\ ~isReadOnly
                       THEN /\ Len(writes') = Len(writes) + 1
                            /\ SubSeq(writes', 1, Len(writes)) = writes
                            /\ writes'[Len(writes')].updates.has = {"items"}
                            /\ writes'[Len(writes')].updates.items
                                  = SerItems(heap', items')
                       ELSE writes' = writes
                    /\ ~NeedsBackfill(heap', selectedItem')
                    /\ MigrationEffect(Cur, ClosureOf(Cur))' = Cur']_vars

\* An item of the mixed document has been opened by its owner: the second
\* option has been given an identifier and the patched list written.
C19_Witness ==
    /\ last.op = "selectItem" /\ ~isReadOnly /\ Len(writes) = 1
    /\ remote[PrivatePath(GoogleUid)] = MixedDoc
    /\ SerOptions(heap, selectedItem[1].options)[1] = MixedDoc.items[1].options[1]
    /\ SerOptions(heap, selectedItem[1].options)[2].id = randomUUID(1)

\* The items and the selected item that a closure holds, as values.
HeldValue(h, c) ==
    [items |-> SerItems(h, c.items),
     selectedItem |-> IF c.selectedItem = <<>> THEN <<>>
                      ELSE <<SerItem(h, c.selectedItem[1])>>]

\* C20: no handler modifies in place a value of the cache: the items and the
\* selected item held from before the handler ran (here by the closure of a
\* file read still pending) have the value they had.
C20_NoInPlaceMutation ==
    [][last'.op # "imageLoaded"
       => \A i \in 1..Len(reads) :
             HeldValue(heap', reads'[i].c) = HeldValue(heap, reads[i].c)]_vars

\* The collection a completed read of the given kind sets and persists, when
\* it is the value its closure held at the start with the image changed.
WithImage(rd) ==
    IF rd.kind = "space"
    THEN [k \in 1..Len(rd.held.spaces) |->
             IF rd.held.spaces[k].id = rd.id
             THEN [rd.held.spaces[k] EXCEPT !.image = rd.result]
             ELSE rd.held.spaces[k]]
    ELSE [k \in 1..Len(rd.held.items) |->
             IF rd.held.items[k].id # rd.id THEN rd.held.items[k]
             ELSE IF rd.kind = "item"
                  THEN [rd.held.items[k] EXCEPT !.image = rd.result]
                  ELSE [rd.held.items[k] EXCEPT
                           !.options[rd.idx + 1].image = rd.result]]

\* C21: a completed image read sets, and persists, the collection value
\* captured when the read was started with only the image changed.
C21_ReadCompletionOverwrites ==
    [][(last'.op = "imageLoaded" /\ ~Unmounted)
       => \E i \in 1..Len(reads) :
             /\ reads[i].kind = last'.id /\ reads[i].idx = last'.idx
             /\ Len(writes') = Len(writes) + 1
             /\ IF reads[i].kind = "space"
                THEN /\ spaces' = WithImage(reads[i])
                     /\ writes'[Len(writes')].updates.spaces = spaces'
                ELSE /\ SerItems(heap', items') = WithImage(reads[i])
                     /\ writes'[Len(writes')].updates.items
                           = WithImage(reads[i])]_vars

\* The sequence without its element at position at (from 1).
Without(seq, at) == SubSeq(seq, 1, at - 1) \o SubSeq(seq, at + 1, Len(seq))

\* C22: a drop at j with drag source i, i # j and i an index of the list,
\* puts the option that was at i at index j of the item's options and keeps
\* the order of the others, in the items entry and in selectedItem; the
\* other items are unchanged and one write carries the whole items
\* collection.  A drop with no drag source or with i = j changes nothing
\* and writes nothing.
C22_DropMoves ==
    [][last'.op = "drop"
       => LET i == last'.idx
              j == last'.to
              id == selectedItem[1].id
          IN  IF i = NoIdx \/ i = j
              THEN UNCHANGED <<spaces, items, groceries, repairs, selectedItem,
                               heap, writes, clock, draggedOptionIdx>>
              ELSE i < Len(selectedItem[1].options)
                   => /\ Len(items') = Len(items)
                      /\ selectedItem' # <<>>
                      /\ \A k \in 1..Len(items) :
                            LET old == SerItem(heap, items[k])
                                new == SerItem(heap', items'[k])
                            IN  IF old.id # id THEN new = old
                                ELSE /\ [new EXCEPT !.options = old.options] = old
                                     /\ Len(new.options) = Len(old.options)
                                     /\ new.options[j + 1] = old.options[i + 1]
                                     /\ Without(new.options, j + 1)
                                           = Without(old.options, i + 1)
                                     /\ SerItem(heap', selectedItem'[1]) = new
                      /\ Len(writes') = Len(writes) + 1
                      /\ writes'[Len(writes')].updates.has = {"items"}
                      /\ writes'[Len(writes')].updates.items
                            = SerItems(heap', items')]_vars

\* C23: selectedItem is null or has the id of an entry of items.
C23_SelectionExists ==
    selectedItem = <<>> \/ EntriesOf(items, selectedItem[1].id) # {}

\* C24: when an item is selected, every items entry with its id has the
\* name, the image and the options that selectedItem has.
C24_SelectionAgrees ==
    selectedItem # <<>>
    => \A k \in EntriesOf(items, selectedItem[1].id) :
          LET entry == SerItem(heap, items[k])
              sel == SerItem(heap, selectedItem[1])
          IN  /\ entry.name = sel.name
              /\ entry.image = sel.image
              /\ entry.options = sel.options

IdsOf(its) == {its[k].id : k \in 1..Len(its)}

\* C25: a deleted item stays deleted.  No local action other than adding an
\* item puts into the items collection, or into the items of a write, an id
\* that the collection did not hold before the action, nor opens the
\* selection on such an id.
C25_DeletedStaysDeleted ==
    [][last'.op \notin {"snapshot", "addItemToSpace"}
       => /\ IdsOf(items') \subseteq IdsOf(items)
          /\ (Len(writes') > Len(writes)
                => IdsOf(writes'[Len(writes')].updates.items)
                      \subseteq IdsOf(items))
          /\ (selectedItem = <<>> /\ selectedItem' # <<>>
                => selectedItem'[1].id \in IdsOf(items))]_vars

\* C26: every write is addressed to the document of the identity that is
\* signed in when saveData is called.
C26_WriteToCurrentIdentity ==
    [][Len(writes') > Len(writes)
       => writes'[Len(writes')].uid = authUser]_vars

\* C27: the first snapshot handled after a sign-in leaves each collection
\* equal to the value in the new identity's document, or to its initial
\* value when the document does not exist or lacks the key.
C27_NothingRemainsOfPrevious ==
    [][(last.op = "authSignedIn" /\ last'.op = "snapshot")
       => LET doc == View(sub[1], writes)
              given(k) == doc.exists /\ k \in doc.has
          IN  /\ spaces' = IF given("spaces") THEN doc.spaces
                           ELSE DEFAULT_SPACES
              /\ SerItems(heap', items')
                    = IF given("items") THEN doc.items ELSE <<>>
              /\ groceries' = IF given("groceries") THEN doc.groceries
                              ELSE <<>>
              /\ repairs' = IF given("repairs") THEN doc.repairs
                            ELSE <<>>]_vars

\* C28: the loading state eventually ends, and once it has ended it never
\* comes back.
C28_LoadingEnds ==
    /\ <>(~loading)
    /\ [][~loading => ~loading']_vars

\* The loading state has ended on the snapshot of a document that does not
\* exist, for the identity of the anonymous fallback.
C28_Witness ==
    /\ ~loading /\ last.op = "snapshot" /\ shareId = NoShare
    /\ user = AnonPool[1] /\ ~remote[PrivatePath(AnonPool[1])].exists

GroceryOps == {"addGrocery", "updateGrocery", "deleteGrocery"}

RepairOps == {"addRepair", "updateRepair", "deleteRepair"}

EntryValues(field) ==
    IF field = "completed" THEN BOOLEAN ELSE TextInputs \cup {""}

\* What a checklist handler may do to its list: add puts one new entry with
\* an empty text, not completed, at the head; update changes one field of
\* the entry with the id; delete takes the entry with the id out.
ChecklistChange(op, id, old, new) ==
    LET Others(g) == g.id # id
    IN  IF op \in {"addGrocery", "addRepair"}
        THEN /\ new # <<>> /\ Tail(new) = old
             /\ DOMAIN new[1] = {"id", "text", "completed"}
             /\ new[1].text = "" /\ new[1].completed = FALSE
             /\ \A k \in 1..Len(old) : old[k].id # new[1].id
        ELSE IF op \in {"deleteGrocery", "deleteRepair"}
        THEN new = SelectSeq(old, Others)
        ELSE /\ Len(new) = Len(old)
             /\ \E f \in {"text", "completed"} : \E v \in EntryValues(f) :
                  \A k \in 1..Len(old) :
                     new[k] = IF old[k].id = id
                              THEN [old[k] EXCEPT ![f] = v] ELSE old[k]

\* C29: a checklist handler changes its own list as its operation says and
\* nothing else: the other list, the spaces, the items and the selection
\* are unchanged, and what it writes is its own list only.
C29_ChecklistFrame ==
    [][last'.op \in GroceryOps \cup RepairOps
       => /\ UNCHANGED <<spaces, items, heap, selectedItem>>
          /\ IF last'.op \in GroceryOps
             THEN /\ ChecklistChange(last'.op, last'.id, groceries, groceries')
                  /\ repairs' = repairs
             ELSE /\ ChecklistChange(last'.op, last'.id, repairs, repairs')
                  /\ groceries' = groceries
          /\ Len(writes') = Len(writes) + 1
          /\ writes'[Len(writes')].updates.has
                = IF last'.op \in GroceryOps THEN {"groceries"}
                  ELSE {"repairs"}]_vars

\* The second of two groceries has been ticked, the first is as it was.
C29_Witness ==
    /\ last.op = "updateGrocery" /\ last.id = "g1" /\ Len(groceries) = 2
    /\ groceries[1] = NewEntry(randomUUID(1))
    /\ groceries[2] = [id |-> "g1", text |-> "a", completed |-> TRUE]
    /\ repairs = <<>>

\* C30: no two items of the collection have the same order value.
C30_OrdersDistinct ==
    \A j, k \in 1..Len(items) : j # k => items[j].order # items[k].order
====
